---- MODULE Spec2Model ----
(***************************************************************************)
(* A model of the title-resolution and hybrid-ranking engine of            *)
(* src/streamlit_app.py: jaccard_similarity, correct_name and              *)
(* recommend_game, over a catalog `data` (columns Name, Tags) and a dense  *)
(* similarity matrix `sim_matrix` shared by every call.                    *)
(*                                                                         *)
(* Conventions.                                                            *)
(*  - Catalog positions are 1..N here (0..N-1 in the source): item A of    *)
(*    the spec's example is position 1, B is 2, C is 3.                    *)
(*  - A Python string is a sequence of one-character strings.              *)
(*  - A float is an exact rational <<numerator, denominator>> in lowest    *)
(*    terms with a positive denominator.                                   *)
(***************************************************************************)
EXTENDS Integers, Sequences, FiniteSets

\* ------------------------------------------------------------------ bounds
\* Largest catalog (rows of data, order of sim_matrix).
MaxItems == 3
\* Largest n_recommendation a caller passes.
MaxN == 3
\* Threads that run recommend_game concurrently (one per Streamlit session).
MaxThreads == 2
MaxTags == 3

\* ------------------------------------------------ program constants
\* correct_name(title, data, threshold=80)
Threshold == 80
\* recommend_game(..., n_recommendation=5, ...)
DefaultN == 5
\* recommend_game(..., alpha=0.3): as a rational
DefaultAlpha == <<3, 10>>

\* ------------------------------------------------------- float arithmetic
Min(a, b) == IF a <= b THEN a ELSE b

Abs(x) == IF x < 0 THEN 0 - x ELSE x

RECURSIVE Gcd(_, _)
Gcd(a, b) == IF b = 0 THEN a ELSE Gcd(b, a % b)

\* The rational n/d (d # 0) in lowest terms with a positive denominator.
Rat(n, d) ==
    LET g == Gcd(Abs(n), Abs(d))
        s == IF d < 0 THEN 0 - 1 ELSE 1
    IN  <<(s * n) \div g, (s * d) \div g>>

Zero == <<0, 1>>
One == <<1, 1>>

RAdd(a, b) == Rat(a[1] * b[2] + b[1] * a[2], a[2] * b[2])
RSub(a, b) == Rat(a[1] * b[2] - b[1] * a[2], a[2] * b[2])
RMul(a, b) == Rat(a[1] * b[1], a[2] * b[2])
\* a / b for b # 0
RDiv(a, b) == Rat(a[1] * b[2], a[2] * b[1])
RLess(a, b) == a[1] * b[2] < b[1] * a[2]
RLeq(a, b) == a[1] * b[2] <= b[1] * a[2]

\* np.max of a non-empty vector
RECURSIVE NpMax(_)
NpMax(v) ==
    IF Len(v) = 1 THEN v[1]
    ELSE LET m == NpMax(Tail(v)) IN IF RLess(m, v[1]) THEN v[1] ELSE m

\* np.array(v): the vector with every entry computed, once.
NpArray(v) == SubSeq(v, 1, Len(v))

\* v /= m (element-wise true division)
VecDiv(v, m) == NpArray([i \in 1..Len(v) |-> RDiv(v[i], m)])

\* ------------------------------------------------------------------ strings
Upper == {"A", "B", "C", "D", "E", "X"}
LowerOf == [c \in Upper |->
              CASE c = "A" -> "a" [] c = "B" -> "b" [] c = "C" -> "c"
                [] c = "D" -> "d" [] c = "E" -> "e" [] c = "X" -> "x"]

\* str.lower()
StrLower(s) == [i \in 1..Len(s) |-> IF s[i] \in Upper THEN LowerOf[s[i]] ELSE s[i]]

RECURSIVE LStrip(_)
LStrip(s) == IF s # <<>> /\ Head(s) = " " THEN LStrip(Tail(s)) ELSE s

RECURSIVE RStrip(_)
RStrip(s) ==
    IF s # <<>> /\ s[Len(s)] = " " THEN RStrip(SubSeq(s, 1, Len(s) - 1)) ELSE s

\* str.strip()
StrStrip(s) == RStrip(LStrip(s))

\* The mutant of Normalize: the title is compared as typed.
NormalizeRaw(title) == title

\* title.lower().strip()
Normalize(title) == StrStrip(StrLower(title))

\* ---------------------------------------------------------- fuzzy matching
\* One row of the longest-common-subsequence table: entry j is the length for
\* the prefix of s ending at character c and the first j characters of t,
\* from the row before (prevRow) and the entries of this row so far (row).
RECURSIVE LcsRow(_, _, _, _, _)
LcsRow(prevRow, c, t, j, row) ==
    IF j > Len(t) THEN row
    ELSE LET left == IF j = 1 THEN 0 ELSE row[j - 1]
             diag == IF j = 1 THEN 0 ELSE prevRow[j - 1]
             v == IF c = t[j] THEN diag + 1
                  ELSE IF prevRow[j] >= left THEN prevRow[j] ELSE left
         IN  LcsRow(prevRow, c, t, j + 1, Append(row, v))

RECURSIVE LcsFrom(_, _, _, _)
LcsFrom(s, t, i, prevRow) ==
    IF i > Len(s) THEN prevRow
    ELSE LcsFrom(s, t, i + 1, LcsRow(prevRow, s[i], t, 1, <<>>))

\* Length of a longest common subsequence of s and t.
Lcs(s, t) ==
    IF s = <<>> \/ t = <<>> THEN 0
    ELSE LcsFrom(s, t, 1, [j \in 1..Len(t) |-> 0])[Len(t)]

\* thefuzz's default scorer (fuzz.WRatio) on the strings of this model: both
\* are run through the default processor (lower-case, strip); an empty
\* processed string scores 0; for two single-token strings whose lengths
\* differ by a factor below 1.5 the score is the rounded Indel ratio
\* 100 * 2 * LCS / (len1 + len2).
\* round(100 * 2 * lcs / total)
IndelRatio(lcs, total) == (2 * 200 * lcs + total) \div (2 * total)

Processed(p1, p2) ==
    IF p1 = <<>> \/ p2 = <<>> THEN 0
    ELSE IndelRatio(Lcs(p1, p2), Len(p1) + Len(p2))

WRatioOf(s1, s2) == Processed(Normalize(s1), Normalize(s2))

\* The names a catalog is built from, in catalog order.
NamePool ==
    << <<"a", "b", "c", "d", "e">>,
       <<"x", "b", "c", "d", "e">>,
       <<"e", "d", "c", "b", "a">>,
       <<"d", "x", "d", "x", "d">>,
       <<"c", "a", "x", "a", "c">> >>

\* What a caller types: an exact name in upper case with a leading blank, an
\* exact name with a trailing blank, an exact name as stored, a misspelling
\* one edit away from the first name (score 80), one two edits away (score
\* 60), and a blank title.
RawTitles ==
    { <<" ", "A", "B", "C", "D", "E">>,
      <<"x", "b", "c", "d", "e", " ">>,
      <<"e", "d", "c", "b", "a">>,
      <<"a", "b", "c", "d", "x">>,
      <<"A", "b", "x", "d", "x">>,
      <<" ", " ">> }

\* The scores of every query and choice of this model, computed once.
WRatioTable ==
    [q \in RawTitles \cup {Normalize(t) : t \in RawTitles} |->
        [i \in 1..Len(NamePool) |-> WRatioOf(q, NamePool[i])]]

PoolIndex(name) == CHOOSE i \in 1..Len(NamePool) : NamePool[i] = name

\* The scorer as extractOne calls it.
WRatio(s1, s2) ==
    IF s1 \in DOMAIN WRatioTable /\ (\E i \in 1..Len(NamePool) : NamePool[i] = s2)
    THEN WRatioTable[s1][PoolIndex(s2)]
    ELSE WRatioOf(s1, s2)

None == [found |-> FALSE, match |-> <<>>, score |-> 0]

\* The better of the best match so far and a choice with score sc: a later
\* choice wins only with a strictly higher score.
Better(best, choice, sc) ==
    IF sc > best.score THEN [found |-> TRUE, match |-> choice, score |-> sc]
    ELSE best

RECURSIVE BestFrom(_, _, _, _)
BestFrom(query, choices, i, best) ==
    IF i > Len(choices) THEN best
    ELSE BestFrom(query, choices, i + 1,
                  Better(best, choices[i], WRatio(query, choices[i])))

\* process.extractOne(title, game_names): the first choice with the highest
\* score, or None when there is no choice.
ExtractOne(query, choices) ==
    IF choices = <<>> THEN None
    ELSE BestFrom(query, choices, 2,
                  [found |-> TRUE, match |-> choices[1],
                   score |-> WRatio(query, choices[1])])

\* The mutant of AcceptScore: a strict comparison.
AcceptScoreStrict(score, threshold) == score > threshold

\* if score >= threshold
AcceptScore(score, threshold) == score >= threshold

\* correct_name(title, data, threshold): "raise" is the TypeError of unpacking
\* None into (best_match, score); "none" is the returned None.
Unpacked(r, threshold) ==
    IF ~r.found THEN [kind |-> "raise", name |-> <<>>]
    ELSE IF AcceptScore(r.score, threshold) THEN [kind |-> "name", name |-> r.match]
    ELSE [kind |-> "none", name |-> <<>>]

correct_name(title, Names, threshold) == Unpacked(ExtractOne(title, Names), threshold)

\* ------------------------------------------------------------ tag overlap
\* The mutant of jaccard_similarity: the union is counted as the two sizes
\* added, the shared tags twice.
JaccardOverSum(set1, set2) ==
    LET intersection == Cardinality(set1 \cap set2)
        union == Cardinality(set1) + Cardinality(set2)
    IN  IF union # 0 THEN Rat(intersection, union) ELSE Zero

\* jaccard_similarity(set1, set2)
jaccard_similarity(set1, set2) ==
    LET intersection == Cardinality(set1 \cap set2)
        union == Cardinality(set1 \cup set2)
    IN  IF union # 0 THEN Rat(intersection, union) ELSE Zero

\* if np.max(v) > 0
MaxPositive(v) == RLess(Zero, NpMax(v))

\* if np.max(v) > 0: v /= np.max(v)
Normalized(v) == IF MaxPositive(v) THEN VecDiv(v, NpMax(v)) ELSE v

\* The loop over range(len(data)) that fills jaccard_scores, then its
\* normalization; g_idx scores 0 against itself.
JaccardScores(g_idx, Tags) ==
    Normalized(NpArray([idx \in 1..Len(Tags) |->
                   IF idx = g_idx THEN Zero
                   ELSE jaccard_similarity(Tags[g_idx], Tags[idx])]))

\* The mutant of FinalScore: the tag scores are added without their weight
\* (1 - alpha).
FinalScoreUnweighted(alpha, cosine_scores, jaccard_scores) ==
    NpArray([i \in 1..Len(cosine_scores) |->
        RAdd(RMul(alpha, cosine_scores[i]), jaccard_scores[i])])

\* final_score = alpha * cosine_scores + (1 - alpha) * jaccard_scores
FinalScore(alpha, cosine_scores, jaccard_scores) ==
    NpArray([i \in 1..Len(cosine_scores) |->
        RAdd(RMul(alpha, cosine_scores[i]),
             RMul(RSub(One, alpha), jaccard_scores[i]))])

\* ------------------------------------------------------------------ ranking
\* The two orders a build of numpy can leave equal keys in: "stable" keeps
\* them in index order (the insertion sort of short arrays), "unstable"
\* leaves them in the opposite order (a vectorized sorting network).
TieOrders == {"stable", "unstable"}

\* i comes before j in final_score.argsort()
Before(v, tie, i, j) ==
    \/ RLess(v[i], v[j])
    \/ v[i] = v[j] /\ (IF tie = "stable" THEN i < j ELSE i > j)

\* final_score.argsort(): the positions in ascending order of score
Argsort(v, tie) ==
    [p \in 1..Len(v) |->
        CHOOSE i \in 1..Len(v) :
            Cardinality({j \in 1..Len(v) : Before(v, tie, j, i)}) = p - 1]

\* s[::-1]
Reversed(s) == [p \in 1..Len(s) |-> s[Len(s) + 1 - p]]

\* A slice bound as Python reads it: a negative bound counts from the end,
\* and the result is clamped to 0..len.
SliceBound(b, len) ==
    LET c == IF b < 0 THEN b + len ELSE b
    IN  IF c < 0 THEN 0 ELSE IF c > len THEN len ELSE c

\* s[start:stop], 0-based bounds as in Python
PySlice(s, start, stop) ==
    LET a == SliceBound(start, Len(s))
        b == SliceBound(stop, Len(s))
    IN  IF a >= b THEN <<>> ELSE SubSeq(s, a + 1, b)

\* The mutant of TopSlice: the first entry of the ranking is kept.
TopSliceFromZero(s, n) == PySlice(s, 0, n)

\* [1:n_recommendation+1]
TopSlice(s, n) == PySlice(s, 1, n + 1)

\* recomm_idx = final_score.argsort()[::-1][1:n_recommendation+1]
RecommIdx(final_score, n, tie) == TopSlice(Reversed(Argsort(final_score, tie)), n)

\* ---------------------------------------------------------------- resolution
InSeq(x, s) == \E i \in 1..Len(s) : s[i] = x

\* data[data['Name'] == title].index[0]
FirstIndex(Names, title) ==
    CHOOSE i \in 1..Len(Names) :
        Names[i] = title /\ \A j \in 1..(i - 1) : Names[j] # title

\* Lines 115-126 of recommend_game: the normalized title, the exact lookup,
\* the fuzzy fallback. kind is "ok" (g_idx is the resolved position),
\* "notfound" (the early return) or "raise" (correct_name raised).
\* Lines 119-123: corr_title = correct_name(title, data); if corr_title and
\* corr_title in data['Name'].values: title = corr_title; else the early return.
Corrected(title, Names, c) ==
    IF c.kind = "raise"
    THEN [kind |-> "raise", fuzzy |-> TRUE, title |-> title, g_idx |-> 0]
    ELSE IF c.kind = "name" /\ c.name # <<>> /\ InSeq(c.name, Names)
    THEN [kind |-> "ok", fuzzy |-> TRUE, title |-> c.name,
          g_idx |-> FirstIndex(Names, c.name)]
    ELSE [kind |-> "notfound", fuzzy |-> TRUE, title |-> title, g_idx |-> 0]

\* Lines 118-126 for the normalized title.
Lookup(title, Names) ==
    IF InSeq(title, Names)
    THEN [kind |-> "ok", fuzzy |-> FALSE, title |-> title,
          g_idx |-> FirstIndex(Names, title)]
    ELSE Corrected(title, Names, correct_name(title, Names, Threshold))

Resolve(rawTitle, Names) == Lookup(Normalize(rawTitle), Names)

\* -------------------------------------------------------------------- state
VARIABLES
    data,              \* the catalog: [Name |-> names, Tags |-> tag sets], by position
    sim_matrix,        \* the dense similarity matrix: a sequence of rows, shared by all calls
    sim0,              \* sim_matrix as the loader returned it (history)
    tieOrder,          \* the order this build's argsort leaves equal scores in
    n_recommendation,  \* the n_recommendation the caller passes
    alpha,             \* the alpha the caller passes
    last,              \* the latest finished sequential call: its title and outcome
    prev,              \* the call before it, when it had the same title
    thr,               \* the concurrent calls: each thread's position and locals
    jac                \* a direct call of jaccard_similarity: its two sets and its result

vars == <<data, sim_matrix, sim0, tieOrder, n_recommendation, alpha, last, prev,
          thr, jac>>

\* ------------------------------------------------------- catalogs and inputs
NValues == 0..MaxN

AlphaValues == {Zero, DefaultAlpha, <<1, 2>>, One, <<3, 2>>}

TagCycle == << {"rpg", "fantasy"}, {"rpg", "action"}, {"puzzle"} >>
TagChain == << "rpg", "fantasy", "action", "puzzle", "indie", "coop", "retro" >>

TagProfiles == {"example", "empty", "nested"}

\* The tag set of the item at position i under a profile: the spec's example
\* (A, B, C, repeating), no tags at all, or growing sets (1 tag, then 3, 4,
\* ... tags, each holding the one before).
TagsOf(profile, i) ==
    CASE profile = "example" -> TagCycle[((i - 1) % 3) + 1]
      [] profile = "empty" -> {}
      [] profile = "nested" ->
             {TagChain[k] : k \in 1..(IF i = 1 THEN 1 ELSE Min(i + 1, Len(TagChain)))}

MatrixKinds == {"example", "scaled", "hollow", "zero"}

\* Entry (i, j) of a symmetric matrix. "example": 1 on the diagonal, 0.8 for
\* neighbours and 0.1 otherwise (the spec's row [1.0, 0.8, 0.1]); "scaled":
\* the same with 2 on the diagonal; "hollow": 0 on the diagonal and 0.5 off
\* it; "zero": all 0.
SimEntry(kind, i, j) ==
    CASE kind = "example" ->
             IF i = j THEN One ELSE IF Abs(i - j) = 1 THEN <<4, 5>> ELSE <<1, 10>>
      [] kind = "scaled" ->
             IF i = j THEN <<2, 1>> ELSE IF Abs(i - j) = 1 THEN <<4, 5>> ELSE <<1, 10>>
      [] kind = "hollow" -> IF i = j THEN Zero ELSE <<1, 2>>
      [] kind = "zero" -> Zero

Catalog(N, profile) ==
    [Name |-> [i \in 1..N |-> NamePool[i]],
     Tags |-> [i \in 1..N |-> TagsOf(profile, i)]]

Matrix(N, kind) == [i \in 1..N |-> [j \in 1..N |-> SimEntry(kind, i, j)]]

NoCall ==
    [kind |-> "none", title |-> <<>>, fuzzy |-> FALSE, g_idx |-> 0,
     final_score |-> <<>>, recomm_idx |-> <<>>]

Threads == 1..MaxThreads

Idle ==
    [pc |-> "idle", title |-> <<>>, g_idx |-> 0, jaccard_scores |-> <<>>,
     divisor |-> Zero, kind |-> "none", recomm_idx |-> <<>>]

\* No direct call of jaccard_similarity.
NoJaccard == [set1 |-> {}, set2 |-> {}, called |-> FALSE, result |-> Zero]

\* load_artifacts_from_gcs returns the catalog and the matrix every call
\* shares; the build fixes the tie order and the caller its n and alpha.
Init ==
    \E N \in 0..MaxItems, profile \in TagProfiles, kind \in MatrixKinds,
       tie \in TieOrders, n \in NValues, a \in AlphaValues :
        /\ data = Catalog(N, profile)
        /\ sim_matrix = Matrix(N, kind)
        /\ sim0 = sim_matrix
        /\ tieOrder = tie
        /\ n_recommendation = n
        /\ alpha = a
        /\ last = NoCall
        /\ prev = NoCall
        /\ thr = [t \in Threads |-> Idle]
        /\ jac = NoJaccard

\* ------------------------------------------------------------ recommend_game
\* The mutant of RowNormalized: the row is divided by the maximum of the whole
\* matrix instead of its own.
RowNormalizedByMatrixMax(mat, g_idx) ==
    LET m == NpMax([i \in 1..Len(mat) |-> NpMax(mat[i])])
    IN  [mat EXCEPT ![g_idx] = IF RLess(Zero, m) THEN VecDiv(mat[g_idx], m)
                                ELSE mat[g_idx]]

\* The mutant of RowNormalized: every row of the matrix is divided by its own
\* maximum, not only the row of g_idx.
RowNormalizedWhole(mat, g_idx) == [i \in 1..Len(mat) |-> Normalized(mat[i])]

\* cosine_scores = sim_matrix[g_idx]; if np.max(cosine_scores) > 0:
\* cosine_scores /= np.max(cosine_scores). cosine_scores is a view of the
\* matrix row, so the division writes the row.
RowNormalized(mat, g_idx) == [mat EXCEPT ![g_idx] = Normalized(mat[g_idx])]

\* One whole call of recommend_game on matrix mat: its outcome and the matrix
\* it leaves.
\* Lines 149-159: the ranking of final_score and the returned list.
Ranked(r, n, tie, mat, final_score) ==
    [kind |-> "list", fuzzy |-> r.fuzzy, g_idx |-> r.g_idx,
     final_score |-> final_score,
     recomm_idx |-> RecommIdx(final_score, n, tie), mat |-> mat]

\* Line 148 on the matrix the division left.
Scored(r, n, a, Tags, tie, mat) ==
    Ranked(r, n, tie, mat, FinalScore(a, mat[r.g_idx], JaccardScores(r.g_idx, Tags)))

\* Lines 118-159 for a resolution r.
Resolved(r, n, a, Tags, mat, tie) ==
    IF r.kind # "ok"
    THEN [kind |-> r.kind, fuzzy |-> r.fuzzy, g_idx |-> 0,
          final_score |-> <<>>, recomm_idx |-> <<>>, mat |-> mat]
    ELSE Scored(r, n, a, Tags, tie, RowNormalized(mat, r.g_idx))

Call(rawTitle, n, a, Names, Tags, mat, tie) ==
    Resolved(Resolve(rawTitle, Names), n, a, Tags, mat, tie)

\* A session calls recommend_game(title, data, sim_matrix, n, alpha) and the
\* call runs to its return (or to its exception).
\* What a finished call c for rawTitle leaves behind.
Returns(rawTitle, c) ==
    /\ last' = [kind |-> c.kind, title |-> rawTitle, fuzzy |-> c.fuzzy,
                g_idx |-> c.g_idx, final_score |-> c.final_score,
                recomm_idx |-> c.recomm_idx]
    /\ prev' = IF last.kind # "none" /\ last.title = rawTitle THEN last ELSE NoCall
    /\ sim_matrix' = c.mat

RecommendGame ==
    \E rawTitle \in RawTitles :
        /\ \A t \in Threads : thr[t].pc = "idle"
        /\ Returns(rawTitle, Call(rawTitle, n_recommendation, alpha, data.Name,
                                  data.Tags, sim_matrix, tieOrder))
        /\ UNCHANGED <<data, sim0, tieOrder, n_recommendation, alpha, thr, jac>>

Next == RecommendGame

Spec == Init /\ [][Next]_vars

\* ------------------------------------------- concurrent calls, step by step
\* steam_recommend runs once per session, each session on its own thread;
\* load_artifacts_from_gcs is an st.cache_resource, so every session gets the
\* same data and the same sim_matrix object. A session passes a title picked
\* from the catalog's names and the default n_recommendation and alpha.
InitConc ==
    \E size \in 1..MaxItems, profile \in TagProfiles, kind \in MatrixKinds,
       tie \in TieOrders :
        /\ data = Catalog(size, profile)
        /\ sim_matrix = Matrix(size, kind)
        /\ sim0 = sim_matrix
        /\ tieOrder = tie
        /\ n_recommendation = DefaultN
        /\ alpha = DefaultAlpha
        /\ last = NoCall
        /\ prev = NoCall
        /\ thr = [t \in Threads |-> Idle]
        /\ jac = NoJaccard

Frame == UNCHANGED <<data, sim0, tieOrder, n_recommendation, alpha, last, prev, jac>>

\* The locals of a thread after lines 115-140, for title and its resolution r.
Begun(locals, title, r) ==
    IF r.kind = "ok"
    THEN [locals EXCEPT !.pc = "test", !.title = title, !.g_idx = r.g_idx,
                        !.jaccard_scores = JaccardScores(r.g_idx, data.Tags)]
    ELSE [locals EXCEPT !.pc = "done", !.title = title, !.kind = r.kind]

\* Lines 115-140: the title is resolved and the jaccard scores are computed
\* from the catalog; a title that does not resolve ends the call.
Begin(t) ==
    /\ thr[t].pc = "idle"
    /\ \E i \in 1..Len(data.Name) :
           thr' = [thr EXCEPT ![t] = Begun(@, data.Name[i],
                                           Resolve(data.Name[i], data.Name))]
    /\ UNCHANGED sim_matrix
    /\ Frame

\* Line 144: if np.max(cosine_scores) > 0
TestMax(t) ==
    /\ thr[t].pc = "test"
    /\ thr' = [thr EXCEPT ![t].pc =
                   IF MaxPositive(sim_matrix[thr[t].g_idx]) THEN "max" ELSE "final"]
    /\ UNCHANGED sim_matrix
    /\ Frame

\* Line 145, the right-hand side: np.max(cosine_scores)
ReadMax(t) ==
    /\ thr[t].pc = "max"
    /\ thr' = [thr EXCEPT ![t].pc = "div",
                           ![t].divisor = NpMax(sim_matrix[thr[t].g_idx])]
    /\ UNCHANGED sim_matrix
    /\ Frame

\* Line 145, the in-place division: cosine_scores /= <the maximum read>
Divide(t) ==
    /\ thr[t].pc = "div"
    /\ sim_matrix' = [sim_matrix EXCEPT ![thr[t].g_idx] =
                          VecDiv(sim_matrix[thr[t].g_idx], thr[t].divisor)]
    /\ thr' = [thr EXCEPT ![t].pc = "final"]
    /\ Frame

\* Lines 148-159: the combined scores from the row as it is now, the ranking
\* and the returned list.
Finish(t) ==
    /\ thr[t].pc = "final"
    /\ thr' = [thr EXCEPT ![t].pc = "done", ![t].kind = "list",
                           ![t].recomm_idx =
                               RecommIdx(FinalScore(alpha, sim_matrix[thr[t].g_idx],
                                                    thr[t].jaccard_scores),
                                         n_recommendation, tieOrder)]
    /\ UNCHANGED sim_matrix
    /\ Frame

NextConc ==
    \E t \in Threads :
        Begin(t) \/ TestMax(t) \/ ReadMax(t) \/ Divide(t) \/ Finish(t)

SpecConc == InitConc /\ [][NextConc]_vars

\* ------------------------------------------- jaccard_similarity on its own
\* The tags two sets are drawn from.
TagLetters == << "a", "b", "c", "d", "e" >>
TagUniverse == {TagLetters[k] : k \in 1..MaxTags}

\* Two tag sets handed to jaccard_similarity; nothing is loaded.
InitJaccard ==
    \E set1 \in SUBSET TagUniverse, set2 \in SUBSET TagUniverse :
        /\ jac = [set1 |-> set1, set2 |-> set2, called |-> FALSE, result |-> Zero]
        /\ data = Catalog(0, "empty")
        /\ sim_matrix = Matrix(0, "zero")
        /\ sim0 = sim_matrix
        /\ tieOrder = "stable"
        /\ n_recommendation = DefaultN
        /\ alpha = DefaultAlpha
        /\ last = NoCall
        /\ prev = NoCall
        /\ thr = [t \in Threads |-> Idle]

\* jaccard_similarity(set1, set2) is called and returns.
JaccardSimilarity ==
    /\ ~jac.called
    /\ jac' = [jac EXCEPT !.called = TRUE,
                          !.result = jaccard_similarity(jac.set1, jac.set2)]
    /\ UNCHANGED <<data, sim_matrix, sim0, tieOrder, n_recommendation, alpha,
                   last, prev, thr>>

NextJaccard == JaccardSimilarity

SpecJaccard == InitJaccard /\ [][NextJaccard]_vars

\* ------------------------------------------------------------------- claims
N == Len(data.Name)
Called == last.kind # "none"
Range(s) == {s[i] : i \in 1..Len(s)}
ValidAlpha == RLeq(Zero, alpha) /\ RLeq(alpha, One)
\* The position of x in s, or 0.
PosIn(s, x) == IF InSeq(x, s) THEN CHOOSE i \in 1..Len(s) : s[i] = x ELSE 0
\* The title as the spec normalizes it: lower case, surrounding blanks removed.
Trimmed(title) == StrStrip(StrLower(title))

\* C1. Self-exclusion: with alpha in [0,1] and n >= 1, the list returned for
\* a title that resolves to item g never contains g.
C1_SelfExclusion ==
    (last.kind = "list" /\ n_recommendation >= 1 /\ ValidAlpha)
        => last.g_idx \notin Range(last.recomm_idx)

\* C2. The spec's end-to-end example: items A, B, C (positions 1, 2, 3) with
\* tags {rpg, fantasy}, {rpg, action}, {puzzle}, the matrix row of A equal to
\* [1.0, 0.8, 0.1], alpha = 0.3 and n = 2: the list returned for A holds B, B
\* comes before C in it, and B's combined score is above C's.
IsExample ==
    /\ N = 3
    /\ data.Tags = TagCycle
    /\ sim0[1] = <<One, <<4, 5>>, <<1, 10>>>>
    /\ alpha = DefaultAlpha
    /\ n_recommendation = 2
C2_EndToEndExample ==
    (IsExample /\ last.kind = "list" /\ last.g_idx = 1)
        => /\ InSeq(2, last.recomm_idx)
           /\ InSeq(3, last.recomm_idx)
                  => PosIn(last.recomm_idx, 2) < PosIn(last.recomm_idx, 3)
           /\ RLess(last.final_score[3], last.final_score[2])

\* C3. Frame: a call of recommend_game, whatever its outcome, leaves every
\* entry of the similarity matrix and every catalog item as it was.
C3_Frame == [][sim_matrix' = sim_matrix /\ data' = data]_vars

\* C4. Concurrent safety: whatever the interleaving of concurrent calls on the
\* shared catalog and matrix, each call returns the list it would return if it
\* ran alone on the original inputs.
C4_ConcurrentSafety ==
    \A t \in Threads :
        thr[t].pc = "done" /\ thr[t].kind = "list"
            => thr[t].recomm_idx =
                   Call(thr[t].title, n_recommendation, alpha, data.Name,
                        data.Tags, sim0, tieOrder).recomm_idx

\* C5. Determinism: a call repeated right after a call with the same title
\* (same catalog, matrix object, n and alpha) has the same outcome and returns
\* the same ordered list, ties included.
C5_Determinism ==
    prev.kind # "none"
        => last.kind = prev.kind /\ last.recomm_idx = prev.recomm_idx
\* A repeated call that returned a list holding two items of equal combined
\* score, after the first call rescaled the row it read.
C5_Witness ==
    /\ prev.kind = "list"
    /\ sim_matrix # sim0
    /\ \E i, j \in Range(last.recomm_idx) :
           i # j /\ last.final_score[i] = last.final_score[j]

\* C6. Exact-match priority: a title that, lower-cased and trimmed, equals a
\* catalog name resolves to that name and the fuzzy matcher is not consulted.
C6_ExactMatchPriority ==
    (Called /\ InSeq(Trimmed(last.title), data.Name))
        => /\ last.kind = "list"
           /\ ~last.fuzzy
           /\ data.Name[last.g_idx] = Trimmed(last.title)
\* An exact match of a title typed in another case with a surrounding blank.
C6_Witness ==
    /\ last.kind = "list"
    /\ ~last.fuzzy
    /\ last.title # Trimmed(last.title)
    /\ InSeq(Trimmed(last.title), data.Name)

\* The highest fuzzy score of a title over the catalog, and the first name
\* that reaches it.
BestScore(title) ==
    CHOOSE sc \in 0..100 :
        /\ \E i \in 1..N : WRatio(Trimmed(title), data.Name[i]) = sc
        /\ \A i \in 1..N : WRatio(Trimmed(title), data.Name[i]) <= sc
BestCandidate(title) ==
    CHOOSE i \in 1..N :
        /\ WRatio(Trimmed(title), data.Name[i]) = BestScore(title)
        /\ \A j \in 1..(i - 1) :
               WRatio(Trimmed(title), data.Name[j]) < BestScore(title)

\* C7. Threshold gating: on a non-empty catalog a title with no exact match
\* is not found (empty list) when its best fuzzy score is below the threshold
\* and resolves to the best-scoring candidate when the score is at or above it.
C7_ThresholdGating ==
    (Called /\ N > 0 /\ ~InSeq(Trimmed(last.title), data.Name))
        => IF BestScore(last.title) < Threshold
           THEN last.kind = "notfound" /\ last.recomm_idx = <<>>
           ELSE last.kind = "list" /\ last.g_idx = BestCandidate(last.title)
\* A misspelt title accepted with a score exactly at the threshold.
C7_Witness ==
    /\ Called /\ N > 0 /\ ~InSeq(Trimmed(last.title), data.Name)
    /\ BestScore(last.title) = Threshold
    /\ last.kind = "list" /\ last.fuzzy

\* C8. Empty catalog: a call on a catalog of zero items ends in the not-found
\* result with an empty list, never in an exception.
C8_EmptyCatalog ==
    (Called /\ N = 0) => last.kind = "notfound" /\ last.recomm_idx = <<>>

\* C9. InvalidArgument: a call with n < 1 or alpha outside [0,1] never returns
\* a recommendation list.
C9_InvalidArgument ==
    last.kind = "list" => n_recommendation >= 1 /\ ValidAlpha

\* C10. Result length: for a resolved title and n >= 1 the call returns
\* exactly min(n, N-1) entries.
C10_ResultLength ==
    (last.kind = "list" /\ n_recommendation >= 1)
        => Len(last.recomm_idx) = Min(n_recommendation, N - 1)
\* A call asked for more than N-1 entries of a catalog of two or more items.
C10_Witness ==
    /\ last.kind = "list"
    /\ N >= 2
    /\ n_recommendation > N - 1
    /\ Len(last.recomm_idx) = N - 1

\* C11. Score bound: for every item and every alpha in [0,1] the combined
\* score alpha * dense_normalized + (1 - alpha) * tag_normalized lies in [0,1]
\* whenever the maximum of the dense row and the maximum of the tag-score
\* vector are both nonzero.
C11_ScoreBound ==
    (/\ last.kind = "list"
     /\ ValidAlpha
     /\ NpMax(sim0[last.g_idx]) # Zero
     /\ NpMax(JaccardScores(last.g_idx, data.Tags)) # Zero)
        => \A i \in 1..N :
               RLeq(Zero, last.final_score[i]) /\ RLeq(last.final_score[i], One)
\* A call with alpha strictly inside [0,1] on a row whose maximum is not 1 and
\* a catalog with overlapping tags: the row was rescaled, one item has the
\* combined score 1 and another a score strictly between 0 and 1.
C11_Witness ==
    /\ last.kind = "list"
    /\ RLess(Zero, alpha) /\ RLess(alpha, One)
    /\ NpMax(sim0[last.g_idx]) \notin {Zero, One}
    /\ NpMax(JaccardScores(last.g_idx, data.Tags)) # Zero
    /\ \E i, j \in 1..N :
           /\ last.final_score[i] = One
           /\ RLess(Zero, last.final_score[j]) /\ RLess(last.final_score[j], One)

\* The tags the two sets share, counted one by one, and the tags in either.
SharedTags == Cardinality({x \in jac.set1 : x \in jac.set2})
EitherTags == Cardinality(jac.set1) + Cardinality(jac.set2) - SharedTags

\* C12. Jaccard correctness: for any two tag sets jaccard_similarity returns
\* |intersection| / |union|; it returns 0, not an error, when both sets are
\* empty, and 1 for two identical non-empty sets; {a,b} against {b,c} gives
\* 1/3.
C12_JaccardCorrectness ==
    jac.called
        => /\ EitherTags > 0
                  => /\ jac.result[2] > 0
                     /\ jac.result[1] * EitherTags = SharedTags * jac.result[2]
           /\ (jac.set1 = {} /\ jac.set2 = {}) => jac.result = Zero
           /\ (jac.set1 = jac.set2 /\ jac.set1 # {}) => jac.result = One
           /\ (jac.set1 = {"a", "b"} /\ jac.set2 = {"b", "c"})
                  => jac.result = <<1, 3>>
\* The call on {a,b} and {b,c} has returned 1/3.
C12_Witness ==
    /\ jac.called
    /\ jac.set1 = {"a", "b"}
    /\ jac.set2 = {"b", "c"}
    /\ jac.result = <<1, 3>>

\* C13. Top-n ranking: for a resolved query item g the returned list is in
\* non-increasing order of combined score, and every item other than g that
\* is left out of the list has a combined score <= that of every returned
\* item.
C13_TopNRanking ==
    last.kind = "list"
        => /\ \A p \in 1..(Len(last.recomm_idx) - 1) :
                  RLeq(last.final_score[last.recomm_idx[p + 1]],
                       last.final_score[last.recomm_idx[p]])
           /\ \A i \in (1..N) \ (Range(last.recomm_idx) \cup {last.g_idx}) :
                  \A j \in Range(last.recomm_idx) :
                      RLeq(last.final_score[i], last.final_score[j])

\* Row i of the matrix is as loaded, or is the loaded row divided by its
\* maximum.
RowAsLoaded(i) == sim_matrix[i] = sim0[i]
RowRescaledOnce(i) ==
    MaxPositive(sim0[i]) /\ sim_matrix[i] = VecDiv(sim0[i], NpMax(sim0[i]))

\* C14. Under any sequence of sequential recommend_game calls on one shared
\* matrix, every row is at all times its original value or its original value
\* divided by its original maximum; a row changes only in a call that queried
\* its item, and only if its maximum is > 0; and a row that has been rescaled
\* is never rescaled a second time.
C14_RowRescaledOnce ==
    /\ [](\A i \in 1..N : RowAsLoaded(i) \/ RowRescaledOnce(i))
    /\ [][\A i \in 1..N :
              /\ sim_matrix'[i] # sim_matrix[i]
                     => /\ last'.kind = "list"
                        /\ last'.g_idx = i
                        /\ MaxPositive(sim0[i])
              /\ ~RowAsLoaded(i) => sim_matrix'[i] = sim_matrix[i]]_vars
\* A query repeated on a row whose maximum is neither 0 nor 1: the row holds
\* its rescaled value, and another such row, never queried, is as loaded.
C14_Witness ==
    /\ prev.kind = "list"
    /\ \E i, j \in 1..N :
           /\ i = last.g_idx
           /\ ~RowAsLoaded(i) /\ RowRescaledOnce(i)
           /\ j # i
           /\ RowAsLoaded(j) /\ MaxPositive(sim0[j]) /\ NpMax(sim0[j]) # One
====
